---- MODULE Spec2Model ----
(***************************************************************************)
(* Schedule-Converter: the text pre-validation of main.py, the parser and  *)
(* the AIXM renderer of models/schedule_converter.py, and the run of       *)
(* main().                                                                 *)
(*                                                                         *)
(* A Python str is a sequence of one-character strings.  An XML document   *)
(* is the sequence of its lines.  A dict is a function whose DOMAIN is the *)
(* set of its keys.                                                        *)
(***************************************************************************)
EXTENDS Integers, Sequences, FiniteSets, TLC

VARIABLES pc, useMock, apiKey, inputExists, text, reply, records, result,
          outFile, prior, trace, backendCalls

vars == <<pc, useMock, apiKey, inputExists, text, reply, records, result,
          outFile, prior, trace, backendCalls>>

(***************************************************************************)
(* Bounds of the model.                                                    *)
(***************************************************************************)
\* clauses in a schedule text after the first one
MaxExtraClauses == 2
\* records in a list handed to generate_aixm_xml
MaxRecords == 2
\* elements in a backend reply that is a JSON array
MaxReplyLen == 2

(***************************************************************************)
(* Python str helpers.                                                     *)
(***************************************************************************)
WhitespaceChars == {" ", "\n", "\t"}

DigitChars == {"0", "1", "2", "3", "4", "5", "6", "7", "8", "9"}

\* int() of one decimal digit
DigitVal(c) ==
    CASE c = "0" -> 0 [] c = "1" -> 1 [] c = "2" -> 2 [] c = "3" -> 3
      [] c = "4" -> 4 [] c = "5" -> 5 [] c = "6" -> 6 [] c = "7" -> 7
      [] c = "8" -> 8 [] c = "9" -> 9

\* str.isdigit(): non-empty and every character a digit
IsDigitStr(s) == Len(s) > 0 /\ \A k \in 1..Len(s) : s[k] \in DigitChars

RECURSIVE IntOf(_)
\* int(s) of a digit string
IntOf(s) ==
    IF Len(s) = 0 THEN 0
    ELSE 10 * IntOf(SubSeq(s, 1, Len(s) - 1)) + DigitVal(s[Len(s)])

RECURSIVE LStrip(_)
LStrip(s) ==
    IF Len(s) > 0 /\ s[1] \in WhitespaceChars THEN LStrip(Tail(s)) ELSE s

RECURSIVE RStrip(_)
RStrip(s) ==
    IF Len(s) > 0 /\ s[Len(s)] \in WhitespaceChars
    THEN RStrip(SubSeq(s, 1, Len(s) - 1)) ELSE s

\* str.strip()
Strip(s) == RStrip(LStrip(s))

RECURSIVE SplitFrom(_, _, _)
\* the pieces of s from position p on, cur being the piece under construction
SplitFrom(s, sep, cur) ==
    IF Len(s) = 0 THEN <<cur>>
    ELSE IF s[1] = sep THEN <<cur>> \o SplitFrom(Tail(s), sep, <<>>)
    ELSE SplitFrom(Tail(s), sep, Append(cur, s[1]))

\* str.split(sep) for a one-character separator
Split(s, sep) == SplitFrom(s, sep, <<>>)

RECURSIVE Cat(_)
\* ''.join(parts)
Cat(parts) == IF Len(parts) = 0 THEN <<>> ELSE Head(parts) \o Cat(Tail(parts))

(***************************************************************************)
(* The day tokens of the pattern of validate_schedule_text.                *)
(***************************************************************************)
MON_FRI == <<"M", "O", "N", "-", "F", "R", "I">>
SUN_FRI == <<"S", "U", "N", "-", "F", "R", "I">>
MON_SAT == <<"M", "O", "N", "-", "S", "A", "T">>
SUN_SAT == <<"S", "U", "N", "-", "S", "A", "T">>
MON == <<"M", "O", "N">>
TUE == <<"T", "U", "E">>
WED == <<"W", "E", "D">>
THU == <<"T", "H", "U">>
FRI == <<"F", "R", "I">>
SAT == <<"S", "A", "T">>
SUN == <<"S", "U", "N">>
EveryDay == <<"E", "v", "e", "r", "y", " ", "d", "a", "y">>

DayTokens == {MON_FRI, SUN_FRI, MON_SAT, SUN_SAT, MON, TUE, WED, THU, FRI,
              SAT, SUN, EveryDay}

(***************************************************************************)
(* re.match(pattern, text): the pattern is matched as a set of cursor      *)
(* positions (1 .. Len(t)+1), so that every way of matching is followed.   *)
(***************************************************************************)
\* \s* from any position of S
ReSpaces(t, S) ==
    {q \in 1..(Len(t) + 1) :
        \E p \in S : p <= q /\ \A k \in p..(q - 1) : t[k] \in WhitespaceChars}

\* the literal w from any position of S
ReLit(t, S, w) ==
    {p + Len(w) : p \in {p \in S : /\ p + Len(w) - 1 <= Len(t)
                                   /\ SubSeq(t, p, p + Len(w) - 1) = w}}

\* (?:MON-FRI|SUN-FRI|...|Every day)
ReDay(t, S) == UNION {ReLit(t, S, w) : w \in DayTokens}

\* \d{4}
ReDigits4(t, S) ==
    {p + 4 : p \in {p \in S : /\ p + 3 <= Len(t)
                              /\ \A k \in p..(p + 3) : t[k] \in DigitChars}}

\* (?:DAY)\s*:\s*\d{4}-\d{4}
ReClause(t, S) ==
    ReDigits4(t, ReLit(t, ReDigits4(t,
        ReSpaces(t, ReLit(t, ReSpaces(t, ReDay(t, S)), <<":">>))), <<"-">>))

RECURSIVE ReMore(_, _)
\* (?:,\s*(?:clause)\s*)*
ReMore(t, S) ==
    IF S = {} THEN {}
    ELSE S \cup ReMore(t, ReSpaces(t, ReClause(t,
                              ReSpaces(t, ReLit(t, S, <<",">>)))))

\* ^\s*(?:clause)\s*(?:,\s*(?:clause)\s*)*$ ; $ also matches before a final \n
ReMatch(t) ==
    \E p \in ReMore(t, ReSpaces(t, ReClause(t, ReSpaces(t, {1})))) :
        \/ p = Len(t) + 1
        \/ p = Len(t) /\ t[Len(t)] = "\n"

(***************************************************************************)
(* validate_schedule_text                                                  *)
(***************************************************************************)
\* the range test with the bounds one too wide: 24:00 and xx:60 pass
TimeInRangeInclusive(hhmm) ==
    LET hour == IntOf(SubSeq(hhmm, 1, 2))
        min  == IntOf(SubSeq(hhmm, 3, Len(hhmm)))
    IN  0 <= hour /\ hour <= 24 /\ 0 <= min /\ min <= 60

\* the hour and minute range test of one HHMM string
TimeInRange(hhmm) ==
    LET hour == IntOf(SubSeq(hhmm, 1, 2))
        min  == IntOf(SubSeq(hhmm, 3, Len(hhmm)))
    IN  0 <= hour /\ hour <= 23 /\ 0 <= min /\ min <= 59

\* the body of the for loop for one schedule; FALSE is "return False"
ScheduleOk(sched) ==
    LET parts == [i \in DOMAIN Split(sched, ":") |-> Strip(Split(sched, ":")[i])]
    IN  IF Len(parts) # 2 THEN FALSE        \* unpacking raises ValueError
        ELSE LET times == [i \in DOMAIN Split(parts[2], "-") |->
                                Strip(Split(parts[2], "-")[i])]
             IN  IF Len(times) # 2 THEN FALSE   \* unpacking raises ValueError
                 ELSE /\ Len(times[1]) = 4 /\ Len(times[2]) = 4
                      /\ IsDigitStr(times[1]) /\ IsDigitStr(times[2])
                      /\ TimeInRange(times[1]) /\ TimeInRange(times[2])

validate_schedule_text(t) ==
    IF Len(Strip(t)) = 0 THEN FALSE
    ELSE IF ~ReMatch(t) THEN FALSE
    ELSE LET schedules == [i \in DOMAIN Split(t, ",") |-> Strip(Split(t, ",")[i])]
         IN  \A i \in DOMAIN schedules : ScheduleOk(schedules[i])

(***************************************************************************)
(* Input texts: clauses put together from day tokens, separators and time  *)
(* fields, well-formed and not.                                            *)
(***************************************************************************)
T0000 == <<"0", "0", "0", "0">>
T0800 == <<"0", "8", "0", "0">>
T1200 == <<"1", "2", "0", "0">>
T1800 == <<"1", "8", "0", "0">>
T2359 == <<"2", "3", "5", "9">>
T2400 == <<"2", "4", "0", "0">>
T0860 == <<"0", "8", "6", "0">>
T9999 == <<"9", "9", "9", "9">>
T080 == <<"0", "8", "0">>
T08000 == <<"0", "8", "0", "0", "0">>
T08x0 == <<"0", "8", "x", "0">>

TimeFields == {T0000, T0800, T1200, T1800, T2359, T2400, T0860, T9999, T080,
               T08000, T08x0}

\* words the pattern does not list
OtherDays == {<<"m", "o", "n">>, <<"M", "O", "N", "-", "S", "U", "N">>,
              <<"E", "V", "E", "R", "Y", " ", "D", "A", "Y">>, <<>>}

ColonFields == {<<":">>, <<":", " ">>, <<" ", ":", "\n">>, <<" ">>, <<":", ":">>}

DashFields == {<<"-">>, <<" ", "-", " ">>, <<>>}

MkClause(day, colon, start, dash, end) == Cat(<<day, colon, start, dash, end>>)

\* one clause, one field at a time away from "SAT: 0800-1200"
ClauseVariants ==
    {MkClause(d, <<":", " ">>, T0800, <<"-">>, T1200) : d \in DayTokens \cup OtherDays}
    \cup {MkClause(SAT, c, T0800, <<"-">>, T1200) : c \in ColonFields}
    \cup {MkClause(SAT, <<":", " ">>, s, <<"-">>, T1200) : s \in TimeFields}
    \cup {MkClause(SAT, <<":", " ">>, T0800, <<"-">>, e) : e \in TimeFields}
    \cup {MkClause(SAT, <<":", " ">>, T0800, d, T1200) : d \in DashFields}

\* the clauses that texts of several clauses are made of
ClauseCore ==
    {MkClause(MON_FRI, <<":", " ">>, T0800, <<"-">>, T1800),
     MkClause(EveryDay, <<" ", ":", " ">>, T0000, <<"-">>, T2359),
     MkClause(SUN, <<":", " ">>, T2400, <<"-">>, T0800),
     MkClause(MON, <<":", " ">>, T0800, <<"-">>, T0860),
     MkClause(<<"m", "o", "n">>, <<":", " ">>, T0800, <<"-">>, T1800)}

Joiners == {<<",">>, <<",", " ">>, <<" ">>}

RECURSIVE ClauseLists(_)
\* a clause, then at most n more clauses of ClauseCore, each after a clause of
\* ClauseCore
ClauseLists(n) ==
    IF n = 0 THEN ClauseVariants \cup ClauseCore
    ELSE ClauseLists(n - 1) \cup
         {Cat(<<t, j, c>>) : t \in {u \in ClauseLists(n - 1) :
                                       \E k \in ClauseCore :
                                           Len(u) >= Len(k)
                                           /\ SubSeq(u, Len(u) - Len(k) + 1, Len(u)) = k},
                             j \in Joiners, c \in ClauseCore}

\* what may stand around the clause list
Wrappers == {<<<<>>, <<>>>>, <<<<" ">>, <<"\n">>>>, <<<<>>, <<",">>>>}

ValidateInputs ==
    {<<>>, <<" ">>, <<"\n", " ">>}
    \cup {Cat(<<w[1], t, w[2]>>) : w \in Wrappers, t \in ClauseLists(MaxExtraClauses)}

(***************************************************************************)
(* Calls of validate_schedule_text on every input text.                    *)
(***************************************************************************)
NoResult == [kind |-> "none"]
NoReply == [kind |-> "none", items |-> <<>>]

NoFile == [exists |-> FALSE, content |-> <<>>]

\* the variables of main() in a call of one function alone
Idle ==
    /\ useMock = TRUE /\ apiKey = FALSE /\ inputExists = FALSE
    /\ reply = NoReply /\ outFile = NoFile
    /\ prior = NoFile /\ trace = <<>> /\ backendCalls = 0

InitValidate ==
    /\ pc = "validate_call"
    /\ text \in ValidateInputs
    /\ records = <<>>
    /\ result = NoResult
    /\ Idle

CallValidate ==
    /\ pc = "validate_call"
    /\ result' = [kind |-> "bool", val |-> validate_schedule_text(text)]
    /\ pc' = "validate_ret"
    /\ UNCHANGED <<useMock, apiKey, inputExists, text, reply, records, outFile,
                   prior, trace, backendCalls>>

NextValidate == CallValidate

SpecValidate == InitValidate /\ [][NextValidate]_vars

(***************************************************************************)
(* generate_aixm_xml.  An element of the list is [kind, d]: kind "dict"    *)
(* with d the dict, or the kind of a value that is no dict.  A line of the *)
(* XML text is [ind, kind, tag, txt]: ind the number of two-space indents, *)
(* kind "decl" (<?xml ...?>), "blank", "open" (<tag>), "close" (</tag>),   *)
(* "leaf" (<tag>txt</tag>) or "empty" (<tag/>).                            *)
(***************************************************************************)
\* the children of a Timesheet, in the order of the SubElement calls
Fields == <<"timeReference", "startDate", "endDate", "day", "startTime", "endTime">>

\* the second argument of each sched.get
FieldDefault(k) ==
    CASE k = "timeReference" -> "UTC"
      [] k = "startDate" -> "01-01"
      [] k = "endDate" -> "31-12"
      [] k = "day" -> "EVERY DAY"
      [] k = "startTime" -> "00:00"
      [] k = "endTime" -> "23:59"

\* sched.get(k) or default: an empty value is replaced by the default too
DictGetOrDefault(d, k, default) ==
    IF k \in DOMAIN d /\ d[k] # "" THEN d[k] ELSE default

\* dict.get(k, default)
DictGet(d, k, default) == IF k \in DOMAIN d THEN d[k] ELSE default

\* the text given to the child k of the Timesheet of sched
FieldText(sched, k) == DictGet(sched.d, k, FieldDefault(k))

\* the (tag, text) pairs of one Timesheet, in document order
TimesheetOf(sched) == [i \in DOMAIN Fields |-> <<Fields[i], FieldText(sched, Fields[i])>>]

RECURSIVE MergedTimesheets(_)
\* the Timesheets with a period equal to the one after it left out
MergedTimesheets(schedules) ==
    IF Len(schedules) = 0 THEN <<>>
    ELSE IF Len(schedules) > 1 /\ schedules[1] = schedules[2]
    THEN MergedTimesheets(Tail(schedules))
    ELSE <<TimesheetOf(schedules[1])>> \o MergedTimesheets(Tail(schedules))

\* the tree with adjacent equal periods merged into one
TreeOfMerged(schedules) == MergedTimesheets(schedules)

\* the tree below root: one timeInterval/Timesheet per element, in list order
TreeOf(schedules) == [i \in DOMAIN schedules |-> TimesheetOf(schedules[i])]

Line(ind, kind, tag, txt) == [ind |-> ind, kind |-> kind, tag |-> tag, txt |-> txt]

\* an element whose only child is its text; ET writes <tag /> for no text
LeafLine(ind, pair) ==
    IF pair[2] = "" THEN Line(ind, "empty", pair[1], "")
    ELSE Line(ind, "leaf", pair[1], pair[2])

\* the lines toprettyxml writes for one timeInterval
IntervalLines(sheet) ==
    <<Line(1, "open", "timeInterval", ""), Line(2, "open", "Timesheet", "")>>
    \o [i \in DOMAIN sheet |-> LeafLine(3, sheet[i])]
    \o <<Line(2, "close", "Timesheet", ""), Line(1, "close", "timeInterval", "")>>

RECURSIVE AllIntervalLines(_)
AllIntervalLines(tree) ==
    IF Len(tree) = 0 THEN <<>>
    ELSE IntervalLines(Head(tree)) \o AllIntervalLines(Tail(tree))

\* parsed.toprettyxml(indent="  ").split('\n'): the declaration, the document,
\* and the empty string after the last line break
PrettyLines(tree) ==
    <<Line(0, "decl", "xml", "")>>
    \o (IF Len(tree) = 0
        THEN <<Line(0, "empty", "PropertiesWithSchedule", "")>>
        ELSE <<Line(0, "open", "PropertiesWithSchedule", "")>>
             \o AllIntervalLines(tree)
             \o <<Line(0, "close", "PropertiesWithSchedule", "")>>)
    \o <<Line(0, "blank", "", "")>>

\* line.strip() and not line.startswith('<?xml')
KeepLine(l) == l.kind # "blank" /\ ~(l.kind = "decl" /\ l.ind = 0)

RECURSIVE SelectLines(_)
SelectLines(ls) ==
    IF Len(ls) = 0 THEN <<>>
    ELSE (IF KeepLine(Head(ls)) THEN <<Head(ls)>> ELSE <<>>) \o SelectLines(Tail(ls))

\* pretty_xml.strip(): the first line loses its indentation
StripLines(ls) ==
    IF Len(ls) = 0 THEN ls ELSE <<[ls[1] EXCEPT !.ind = 0]>> \o Tail(ls)

Raise(exc) == [kind |-> "raise", exc |-> exc]

\* .get of a value that is no dict raises AttributeError; it is no KeyError, so
\* the second except clause logs it and raises it again
generate_aixm_xml(schedules) ==
    IF \E i \in DOMAIN schedules : schedules[i].kind # "dict"
    THEN Raise("AttributeError")
    ELSE [kind |-> "ok", xml |-> StripLines(SelectLines(PrettyLines(TreeOf(schedules))))]

(***************************************************************************)
(* Record lists handed to generate_aixm_xml.                               *)
(***************************************************************************)
Dict(d) == [kind |-> "dict", d |-> d]
NotDict(kind) == [kind |-> kind, d |-> <<>>]

RecordA == [timeReference |-> "UTC", startDate |-> "01-01", endDate |-> "31-12",
            day |-> "WORK DAY", startTime |-> "08:00", endTime |-> "18:00"]
RecordB == [timeReference |-> "LT", startDate |-> "15-03", endDate |-> "",
            day |-> "SAT", startTime |-> "23:59", endTime |-> "00:00"]

FieldSet == {Fields[i] : i \in DOMAIN Fields}

Restrict(d, S) == [k \in S |-> d[k]]

\* every subset of the six keys missing, from two records
AnyRecords == {Dict(Restrict(r, S)) : r \in {RecordA, RecordB}, S \in SUBSET FieldSet}

\* the elements of the lists of several elements
CoreRecords ==
    {Dict(RecordA), Dict(RecordB), Dict(Restrict(RecordA, FieldSet \ {"endTime"})),
     Dict(Restrict(RecordB, {"day"})), NotDict("str"), NotDict("null")}

NonDicts == {NotDict("str"), NotDict("int"), NotDict("list"), NotDict("null")}

RECURSIVE SeqsUpTo(_, _)
\* the sequences over S of length at most n
SeqsUpTo(S, n) ==
    IF n = 0 THEN {<<>>}
    ELSE SeqsUpTo(S, n - 1) \cup
         {Append(q, x) : q \in {u \in SeqsUpTo(S, n - 1) : Len(u) = n - 1}, x \in S}

RecordLists ==
    {<<r>> : r \in AnyRecords \cup NonDicts} \cup SeqsUpTo(CoreRecords, MaxRecords)

InitRender ==
    /\ pc = "generate_call"
    /\ records \in RecordLists
    /\ text = <<>>
    /\ result = NoResult
    /\ Idle

CallGenerate ==
    /\ pc = "generate_call"
    /\ result' = generate_aixm_xml(records)
    /\ pc' = "generate_ret"
    /\ UNCHANGED <<useMock, apiKey, inputExists, text, reply, records, outFile,
                   prior, trace, backendCalls>>

NextRender == CallGenerate

SpecRender == InitRender /\ [][NextRender]_vars

(***************************************************************************)
(* _create_prompt: str.format on prompt_template.  The template is the     *)
(* sequence of its literal stretches and of its replacement fields {...};  *)
(* the braces of the JSON examples are replacement fields to str.format,   *)
(* named by what stands before the first ':' in them.                      *)
(***************************************************************************)
Lit(s) == [field |-> FALSE, s |-> s]
Field(name) == [field |-> TRUE, s |-> name]

prompt_template ==
    <<Lit("You are an assistant ... Examples: Text: MON-FRI: 0800-1800, SAT: 0800-1200 Output: ["),
      Field("\"timeReference\""), Lit(","), Field("\"timeReference\""),
      Lit("] Text: Every day from 0900 to 1700 Output: ["),
      Field("\"timeReference\""),
      Lit("] Now, convert the following text into a JSON list of dictionaries:"),
      Field("")>>

RECURSIVE FormatFrom(_, _, _, _)
\* str.format(*args) from part i on, auto being the number of {} fields seen
\* and out the pieces written so far
FormatFrom(parts, args, auto, out) ==
    IF Len(parts) = 0 THEN [kind |-> "ok", value |-> out]
    ELSE LET part == Head(parts)
         IN  IF ~part.field
             THEN FormatFrom(Tail(parts), args, auto, Append(out, <<"lit", part.s>>))
             ELSE IF part.s = ""
             THEN IF auto + 1 > Len(args) THEN Raise("IndexError")
                  ELSE FormatFrom(Tail(parts), args, auto + 1,
                                  Append(out, <<"arg", args[auto + 1]>>))
             ELSE Raise("KeyError")     \* no keyword argument of that name

StrFormat(parts, args) == FormatFrom(parts, args, 0, <<>>)

_create_prompt(t) == StrFormat(prompt_template, <<t>>)

(***************************************************************************)
(* parse_schedule_text.  A backend reply is [kind, items]: kind "raises"   *)
(* (generate_content raises), "notjson" (response.text is no JSON), "list" *)
(* with its items, or the kind of another JSON value.                      *)
(***************************************************************************)
USE_MOCK == TRUE

\* json.loads(mock_response)
mock_response ==
    <<Dict([timeReference |-> "UTC", startDate |-> "01-01", endDate |-> "31-12",
            day |-> "WORK DAY", startTime |-> "08:00", endTime |-> "18:00"]),
      Dict([timeReference |-> "UTC", startDate |-> "01-01", endDate |-> "31-12",
            day |-> "SAT", startTime |-> "08:00", endTime |-> "12:00"])>>

required_keys == {"timeReference", "startDate", "endDate", "day", "startTime", "endTime"}

ValueError(msg, idx, missing) ==
    [kind |-> "raise", exc |-> "ValueError", msg |-> msg, idx |-> idx, missing |-> missing]

RECURSIVE CheckSchedules(_, _)
\* the for loop over enumerate(schedules), from index i (0-based) on
CheckSchedules(schedules, i) ==
    IF i >= Len(schedules) THEN [kind |-> "ok", value |-> schedules]
    ELSE LET sched == schedules[i + 1]
         IN  IF sched.kind # "dict"
             THEN ValueError("is not a dictionary", i, {})
             ELSE IF required_keys \ DOMAIN sched.d # {}
             THEN ValueError("is missing keys", i, required_keys \ DOMAIN sched.d)
             ELSE CheckSchedules(schedules, i + 1)

\* the try block: the reply of the backend is loaded and checked
LoadReply(rep) ==
    CASE rep.kind = "raises" -> Raise("BackendError")
      [] rep.kind = "notjson" -> ValueError("Failed to parse LLM response as JSON", -1, {})
      [] rep.kind = "list" -> CheckSchedules(rep.items, 0)
      [] OTHER -> ValueError("Expected a JSON list from LLM response", -1, {})

\* [res: what the call returns or raises, calls: the calls of generate_content]
parse_schedule_text(t, mock, rep) ==
    IF mock THEN [res |-> [kind |-> "ok", value |-> mock_response], calls |-> 0]
    ELSE LET prompt == _create_prompt(t)
         IN  IF prompt.kind = "raise" THEN [res |-> prompt, calls |-> 0]
             ELSE [res |-> LoadReply(rep), calls |-> 1]

\* every exception is logged and raised again
convert_text_to_aixm(t, mock, rep) ==
    LET parsed == parse_schedule_text(t, mock, rep)
    IN  IF parsed.res.kind = "raise" THEN parsed
        ELSE [res |-> generate_aixm_xml(parsed.res.value), calls |-> parsed.calls]

(***************************************************************************)
(* Calls of parse_schedule_text with the flag of line 34 set to False: the *)
(* else branch, which asks the backend.                                    *)
(***************************************************************************)
ReplyItems ==
    {Dict(RecordA), Dict(Restrict(RecordA, FieldSet \ {"endTime"})),
     Dict(Restrict(RecordB, {"day", "endTime"})), Dict(<<>>), NotDict("str")}

Replies ==
    {[kind |-> k, items |-> <<>>] : k \in {"raises", "notjson", "dict", "str", "num", "null"}}
    \cup {[kind |-> "list", items |-> q] : q \in SeqsUpTo(ReplyItems, MaxReplyLen)}

LiveTexts ==
    {MkClause(MON_FRI, <<":", " ">>, T0800, <<"-">>, T1800),
     MkClause(SAT, <<":">>, T0800, <<"-">>, T1200),
     Cat(<<MkClause(MON_FRI, <<":", " ">>, T0800, <<"-">>, T1800), <<",", " ">>,
           MkClause(SAT, <<":", " ">>, T0800, <<"-">>, T1200)>>)}

InitLive ==
    /\ pc = "parse_call"
    /\ useMock = FALSE
    /\ text \in LiveTexts
    /\ reply \in Replies
    /\ records = <<>>
    /\ result = NoResult
    /\ apiKey = TRUE /\ inputExists = FALSE
    /\ outFile = NoFile /\ prior = NoFile /\ trace = <<>> /\ backendCalls = 0

CallParse ==
    /\ pc = "parse_call"
    /\ LET r == parse_schedule_text(text, useMock, reply)
       IN  /\ result' = r.res
           /\ backendCalls' = backendCalls + r.calls
    /\ pc' = "parse_ret"
    /\ UNCHANGED <<useMock, apiKey, inputExists, text, reply, records, outFile,
                   prior, trace>>

NextLive == CallParse

SpecLive == InitLive /\ [][NextLive]_vars

(***************************************************************************)
(* main(): one action per step of the run.  trace is the order of the      *)
(* steps taken; outFile is the output file, prior what it was before the   *)
(* run.                                                                    *)
(***************************************************************************)
\* an output file left by an earlier run
OldFile == [exists |-> TRUE, content |-> <<Line(0, "empty", "PropertiesWithSchedule", "")>>]

MainJoiner == <<",", " ">>

\* the clauses of the input file: two well-formed, two not
MainClauses ==
    {MkClause(MON_FRI, <<":", " ">>, T0800, <<"-">>, T1800),
     MkClause(SAT, <<":", " ">>, T0800, <<"-">>, T1200),
     MkClause(SUN, <<":", " ">>, T2400, <<"-">>, T0800),
     MkClause(<<"m", "o", "n">>, <<":", " ">>, T0800, <<"-">>, T1800)}

RECURSIVE MainClauseLists(_)
\* the lists of at most n + 1 clauses of MainClauses
MainClauseLists(n) ==
    IF n = 0 THEN MainClauses
    ELSE MainClauseLists(n - 1) \cup
         {Cat(<<t, MainJoiner, c>>) :
             t \in {u \in MainClauseLists(n - 1) :
                       Len(Split(u, ",")) = n}, c \in MainClauses}

\* what the input file may hold
FileTexts ==
    {<<>>, <<"\n">>}
    \cup {Cat(<<w[1], t, w[2]>>) : w \in {<<<<>>, <<>>>>, <<<<" ">>, <<"\n">>>>},
                                   t \in MainClauseLists(MaxExtraClauses)}

Init ==
    /\ pc = "check_key"
    /\ useMock = USE_MOCK
    /\ apiKey \in BOOLEAN
    /\ inputExists \in BOOLEAN
    /\ prior \in {NoFile, OldFile}
    /\ outFile = prior
    /\ text = <<>>
    /\ reply = NoReply
    /\ records = <<>>
    /\ result = NoResult
    /\ trace = <<>>
    /\ backendCalls = 0

\* if not api_key: ... return
CheckKey ==
    /\ pc = "check_key"
    /\ IF ~apiKey
       THEN pc' = "done" /\ trace' = Append(trace, "no_api_key")
       ELSE pc' = "check_input" /\ trace' = Append(trace, "key_ok")
    /\ UNCHANGED <<useMock, apiKey, inputExists, text, reply, records, result,
                   outFile, prior, backendCalls>>

\* if not os.path.exists(input_file): ... return
CheckInput ==
    /\ pc = "check_input"
    /\ IF ~inputExists
       THEN pc' = "done" /\ trace' = Append(trace, "no_input_file")
       ELSE pc' = "read" /\ trace' = Append(trace, "input_exists")
    /\ UNCHANGED <<useMock, apiKey, inputExists, text, reply, records, result,
                   outFile, prior, backendCalls>>

\* schedule_text = f.read().strip(), or open/read raises
ReadInput ==
    /\ pc = "read"
    /\ \/ /\ \E content \in FileTexts : text' = Strip(content)
          /\ pc' = "validate"
          /\ trace' = Append(trace, "read_ok")
       \/ /\ pc' = "done"
          /\ trace' = Append(trace, "read_failed")
          /\ UNCHANGED text
    /\ UNCHANGED <<useMock, apiKey, inputExists, reply, records, result,
                   outFile, prior, backendCalls>>

\* the validation step with its return left out: the error is logged and the
\* run goes on
ValidateWithoutReturn ==
    /\ pc = "validate"
    /\ pc' = "convert"
    /\ trace' = Append(trace, IF validate_schedule_text(text) THEN "valid"
                                                                ELSE "invalid_format")
    /\ UNCHANGED <<useMock, apiKey, inputExists, text, reply, records, result,
                   outFile, prior, backendCalls>>

\* if not validate_schedule_text(schedule_text): ... return
Validate ==
    /\ pc = "validate"
    /\ IF ~validate_schedule_text(text)
       THEN pc' = "done" /\ trace' = Append(trace, "invalid_format")
       ELSE pc' = "convert" /\ trace' = Append(trace, "valid")
    /\ UNCHANGED <<useMock, apiKey, inputExists, text, reply, records, result,
                   outFile, prior, backendCalls>>

\* converter = ScheduleConverter(api_key); converter.convert_text_to_aixm(...)
\* under except ValueError / except Exception
Convert ==
    /\ pc = "convert"
    /\ LET r == convert_text_to_aixm(text, useMock, reply)
       IN  /\ result' = r.res
           /\ backendCalls' = backendCalls + r.calls
           /\ IF r.res.kind = "ok"
              THEN pc' = "open_output" /\ trace' = trace \o <<"convert", "generated">>
              ELSE IF r.res.exc = "ValueError"
              THEN pc' = "done" /\ trace' = trace \o <<"convert", "conversion_error">>
              ELSE pc' = "done" /\ trace' = trace \o <<"convert", "unexpected_error">>
    /\ UNCHANGED <<useMock, apiKey, inputExists, text, reply, records, outFile, prior>>

\* open(output_file, 'w'): the file is created or cut to nothing, or open raises
OpenOutput ==
    /\ pc = "open_output"
    /\ \/ /\ outFile' = [exists |-> TRUE, content |-> <<>>]
          /\ pc' = "write_output"
          /\ trace' = Append(trace, "opened")
       \/ /\ pc' = "done"
          /\ trace' = Append(trace, "write_failed")
          /\ UNCHANGED outFile
    /\ UNCHANGED <<useMock, apiKey, inputExists, text, reply, records, result,
                   prior, backendCalls>>

\* f.write(xml_output) and the close of the with block: all of the text is
\* written, or the write raises with only a part of it in the file
WriteOutput ==
    /\ pc = "write_output"
    /\ \/ /\ outFile' = [exists |-> TRUE, content |-> result.xml]
          /\ trace' = Append(trace, "written")
       \/ /\ \E n \in 0..(Len(result.xml) - 1) :
                outFile' = [exists |-> TRUE, content |-> SubSeq(result.xml, 1, n)]
          /\ trace' = Append(trace, "write_failed")
    /\ pc' = "done"
    /\ UNCHANGED <<useMock, apiKey, inputExists, text, reply, records, result,
                   prior, backendCalls>>

Next ==
    \/ CheckKey
    \/ CheckInput
    \/ ReadInput
    \/ Validate
    \/ Convert
    \/ OpenOutput
    \/ WriteOutput

Spec == Init /\ [][Next]_vars

(***************************************************************************)
(* Reading a schedule text and an XML text, for the properties below.      *)
(***************************************************************************)
\* the comma-separated clauses of a text
ClausesOf(t) == Split(t, ",")

\* "HH:MM" as its characters
ClockChars(v) ==
    CASE v = "00:00" -> <<"0", "0", ":", "0", "0">>
      [] v = "08:00" -> <<"0", "8", ":", "0", "0">>
      [] v = "12:00" -> <<"1", "2", ":", "0", "0">>
      [] v = "18:00" -> <<"1", "8", ":", "0", "0">>
      [] v = "23:59" -> <<"2", "3", ":", "5", "9">>
      [] OTHER -> <<>>

\* the HHMM-HHMM of a well-formed clause as <<"HH:MM" characters, same>>
ClauseClocks(clause) ==
    LET c == Strip(clause)
        start == SubSeq(c, Len(c) - 8, Len(c) - 5)
        end == SubSeq(c, Len(c) - 3, Len(c))
    IN  <<SubSeq(start, 1, 2) \o <<":">> \o SubSeq(start, 3, 4),
          SubSeq(end, 1, 2) \o <<":">> \o SubSeq(end, 3, 4)>>

\* the line numbers of the <tag> lines of an XML text, in document order
OpenLines(xml, tag) ==
    LET IsOpen(i) == xml[i].kind = "open" /\ xml[i].tag = tag
    IN  SelectSeq([i \in 1..Len(xml) |-> i], IsOpen)

\* the text content of a line holding an element without child elements
ElemText(l) == IF l.kind = "leaf" THEN l.txt ELSE ""

IsTextElem(l, tag) == l.kind \in {"leaf", "empty"} /\ l.tag = tag

ChildOrder == <<"timeReference", "startDate", "endDate", "day", "startTime", "endTime">>

DocumentedDefault ==
    [timeReference |-> "UTC", startDate |-> "01-01", endDate |-> "31-12",
     day |-> "EVERY DAY", startTime |-> "00:00", endTime |-> "23:59"]

\* the text of child j of the Timesheet opened on line ts
ChildText(xml, ts, j) == ElemText(xml[ts + j])

AllDicts(list) == \A i \in DOMAIN list : list[i].kind = "dict"

LastStep == IF Len(trace) = 0 THEN "none" ELSE trace[Len(trace)]

(***************************************************************************)
(* C1: for every text the validation accepts, the XML of                   *)
(* convert_text_to_aixm has exactly one Timesheet per comma-separated      *)
(* clause of the text, the k-th Timesheet carrying the start and end time  *)
(* of the k-th clause.                                                     *)
(***************************************************************************)
C1_OneTimesheetPerClause ==
    (pc \in {"open_output", "write_output", "done"} /\ result.kind = "ok") =>
        LET ts == OpenLines(result.xml, "Timesheet")
            cl == ClausesOf(text)
        IN  /\ Len(ts) = Len(cl)
            /\ \A k \in 1..Len(cl) :
                  /\ ClockChars(ChildText(result.xml, ts[k], 5)) = ClauseClocks(cl[k])[1]
                  /\ ClockChars(ChildText(result.xml, ts[k], 6)) = ClauseClocks(cl[k])[2]

(***************************************************************************)
(* C2: when the reply of the backend is a JSON array with an element that  *)
(* lacks one of the six required keys, parse_schedule_text raises          *)
(* ValueError naming the index of such an element and its missing keys,    *)
(* and returns no list.                                                    *)
(***************************************************************************)
LacksKeys(item) == item.kind = "dict" /\ required_keys \ DOMAIN item.d # {}

C2_MissingKeyIsParseError ==
    (pc = "parse_ret" /\ reply.kind = "list"
        /\ \E i \in DOMAIN reply.items : LacksKeys(reply.items[i])) =>
        /\ result.kind = "raise"
        /\ result.exc = "ValueError"
        /\ \E i \in DOMAIN reply.items :
              /\ LacksKeys(reply.items[i])
              /\ result.idx = i - 1
              /\ result.missing = required_keys \ DOMAIN reply.items[i].d

(***************************************************************************)
(* C3: when the reply of the backend is not JSON, or is JSON but not an    *)
(* array, parse_schedule_text raises ValueError and nothing else.          *)
(***************************************************************************)
C3_BadPayloadIsParseError ==
    (pc = "parse_ret" /\ reply.kind \in {"notjson", "dict", "str", "num", "null"}) =>
        result.kind = "raise" /\ result.exc = "ValueError"

(***************************************************************************)
(* C4: for every list of records generate_aixm_xml writes one timeInterval *)
(* per record, in list order, each holding one Timesheet whose six         *)
(* children stand in the fixed order and carry the values of that record:  *)
(* nothing is sorted, dropped or merged.                                   *)
(***************************************************************************)
C4_OneIntervalPerRecordInOrder ==
    (pc = "generate_ret" /\ AllDicts(records)) =>
        /\ result.kind = "ok"
        /\ LET xml == result.xml
               iv == OpenLines(xml, "timeInterval")
               ts == OpenLines(xml, "Timesheet")
           IN  /\ Len(iv) = Len(records)
               /\ Len(ts) = Len(records)
               /\ Cardinality({i \in DOMAIN xml : xml[i].kind \in {"leaf", "empty"}
                                                  /\ xml[i].ind > 0})
                      = 6 * Len(records)
               /\ \A k \in 1..Len(records) :
                     /\ ts[k] = iv[k] + 1
                     /\ \A j \in 1..6 :
                           /\ IsTextElem(xml[ts[k] + j], ChildOrder[j])
                           /\ ChildOrder[j] \in DOMAIN records[k].d =>
                                 ChildText(xml, ts[k], j) = records[k].d[ChildOrder[j]]
                     /\ xml[ts[k] + 7] = Line(2, "close", "Timesheet", "")
                     /\ xml[ts[k] + 8] = Line(1, "close", "timeInterval", "")

\* two equal records, one after the other, are both written
C4_Witness ==
    /\ pc = "generate_ret" /\ result.kind = "ok"
    /\ Len(records) = 2 /\ records[1] = records[2]
    /\ Len(OpenLines(result.xml, "timeInterval")) = 2

(***************************************************************************)
(* C5: for every record, whatever subset of the six keys it lacks,         *)
(* generate_aixm_xml succeeds, writes the documented default for each      *)
(* missing field and the record's own value for each field it has.         *)
(***************************************************************************)
C5_MissingFieldsDefaulted ==
    (pc = "generate_ret" /\ AllDicts(records)) =>
        /\ result.kind = "ok"
        /\ LET ts == OpenLines(result.xml, "Timesheet")
           IN  \A k \in 1..Len(records) : \A j \in 1..6 :
                  ChildText(result.xml, ts[k], j) =
                      IF ChildOrder[j] \in DOMAIN records[k].d
                      THEN records[k].d[ChildOrder[j]]
                      ELSE DocumentedDefault[ChildOrder[j]]

\* the record of the spec's example: only endTime is missing
C5_Witness ==
    /\ pc = "generate_ret" /\ result.kind = "ok"
    /\ Len(records) = 1
    /\ DOMAIN records[1].d = FieldSet \ {"endTime"}
    /\ ChildText(result.xml, OpenLines(result.xml, "Timesheet")[1], 6) = "23:59"
    /\ ChildText(result.xml, OpenLines(result.xml, "Timesheet")[1], 4) = records[1].d["day"]

(***************************************************************************)
(* C6: a run of main() in which any stage fails leaves the output file as  *)
(* it was before the run.                                                  *)
(***************************************************************************)
C6_NoOutputOnError ==
    (pc = "done" /\ LastStep # "written") => outFile = prior

(***************************************************************************)
(* C7: validate_schedule_text returns True exactly for the non-blank       *)
(* comma-separated lists of clauses DAY-TOKEN : HHMM-HHMM (white space     *)
(* allowed around the list, the commas and the colon, nowhere else) whose  *)
(* day token is one of the twelve and whose hours are 00..23 and minutes   *)
(* 00..59.                                                                 *)
(***************************************************************************)
IsHHMM(s) ==
    /\ Len(s) = 4
    /\ \A k \in 1..4 : s[k] \in DigitChars
    /\ 10 * DigitVal(s[1]) + DigitVal(s[2]) \in 0..23
    /\ 10 * DigitVal(s[3]) + DigitVal(s[4]) \in 0..59

HasPrefix(s, w) == Len(s) >= Len(w) /\ SubSeq(s, 1, Len(w)) = w

IsClause(c) ==
    \E d \in {MON_FRI, SUN_FRI, MON_SAT, SUN_SAT, MON, TUE, WED, THU, FRI, SAT,
              SUN, EveryDay} :
        /\ HasPrefix(c, d)
        /\ LET afterDay == LStrip(SubSeq(c, Len(d) + 1, Len(c)))
           IN  /\ HasPrefix(afterDay, <<":">>)
               /\ LET times == LStrip(Tail(afterDay))
                  IN  /\ Len(times) = 9
                      /\ times[5] = "-"
                      /\ IsHHMM(SubSeq(times, 1, 4))
                      /\ IsHHMM(SubSeq(times, 6, 9))

IsScheduleText(t) ==
    /\ Strip(t) # <<>>
    /\ \A i \in DOMAIN ClausesOf(t) : IsClause(Strip(ClausesOf(t)[i]))

C7_ValidateIsTheGrammar ==
    pc = "validate_ret" => (result.val <=> IsScheduleText(text))

\* a text of two clauses is accepted
C7_Witness ==
    /\ pc = "validate_ret" /\ result.val
    /\ Len(ClausesOf(text)) = 2

(***************************************************************************)
(* C8: when an element of the list is no mapping, generate_aixm_xml raises *)
(* ValueError, the kind main() reports as a conversion error.              *)
(***************************************************************************)
C8_NonMappingIsRenderError ==
    (pc = "generate_ret" /\ ~AllDicts(records)) =>
        result.kind = "raise" /\ result.exc = "ValueError"

(***************************************************************************)
(* C9: main() reaches the conversion only after the credential was found   *)
(* set, the input file found and read, and the stripped text validated, in *)
(* this order; without a credential nothing is read, and after a failed    *)
(* validation nothing is converted and the backend is not called.          *)
(***************************************************************************)
C9_ConversionOnlyAfterPreflight ==
    /\ (pc \in {"convert", "open_output", "write_output"} \/ result # NoResult
           \/ \E i \in DOMAIN trace : trace[i] = "convert") =>
          /\ Len(trace) >= 4
          /\ SubSeq(trace, 1, 4) = <<"key_ok", "input_exists", "read_ok", "valid">>
          /\ apiKey /\ inputExists
          /\ validate_schedule_text(text)
    /\ ~apiKey =>
          /\ \A i \in DOMAIN trace : trace[i] = "no_api_key"
          /\ text = <<>> /\ pc \in {"check_key", "done"}
    /\ (\E i \in DOMAIN trace : trace[i] = "invalid_format") =>
          /\ pc = "done" /\ LastStep = "invalid_format"
          /\ result = NoResult /\ backendCalls = 0

\* a run that went through every stage
C9_Witness ==
    /\ pc = "done" /\ LastStep = "written"
    /\ trace = <<"key_ok", "input_exists", "read_ok", "valid", "convert",
                 "generated", "opened", "written">>

(***************************************************************************)
(* C10: with the backend asked (the flag of line 34 False),                *)
(* parse_schedule_text builds the prompt from the template and the text,   *)
(* which never fails, calls the backend exactly once, and fails only with  *)
(* ValueError.                                                             *)
(***************************************************************************)
C10_PromptBuiltThenOneCall ==
    (pc = "parse_ret" /\ ~useMock) =>
        /\ _create_prompt(text).kind = "ok"
        /\ backendCalls = 1
        /\ result.kind = "raise" => result.exc = "ValueError"

====
